---- MODULE Spec2Model ----
(***************************************************************************)
(* nacl: query and rewrite Naemon object definitions.                      *)
(*                                                                         *)
(* Text is modelled character by character: a string is a sequence of     *)
(* one-character strings, a raw line is such a sequence (ending in "\n"    *)
(* unless it is the last line of a file without a final newline), a file   *)
(* is a sequence of raw lines, and what is written to the temporary copy   *)
(* is one sequence of characters.                                          *)
(***************************************************************************)
EXTENDS Integers, Sequences, FiniteSets, TLC

VARIABLES
    input,        \* the open file: its raw lines, in order
    cursor,       \* number of raw lines already pulled from the file
    copybuffer,   \* DataFile.copybuffer: raw lines read but not yet decided
    copystream,   \* DataFile.copystream: the text written to the temporary copy
    updated,      \* DataFile.updated
    update_mode,  \* DataFile.update_mode
    delete_mode,  \* DataFile.delete_mode
    closed,       \* TRUE once DataFile.close has run
    has_copystream, \* TRUE when __init__ gave the session its copystream
    exited,       \* TRUE once DataFile.__exit__ has run
    obj,          \* the record the caller holds: <<>> or <<record>>
    raised,       \* the exception that ended the last call, "" when none
    message,      \* str() of the RuntimeError load raised, <<>> when none
    log,          \* history: one entry per decision submitted to the session
    evals,        \* history: the update expressions evaluated against obj
    before,       \* history: obj as it was before the last of them
    value,        \* the value the last evaluation returned
    parsed,       \* the records read back from a dumped text
    files,        \* the file system: a file's name to its mtime and content
    opt,          \* the options of the invocation of main, <<>> when none
    config_files, \* the config file names of the invocation
    done,         \* number of config file names the invocation is through with
    echo          \* the lines written by click.echo

vars == <<input, cursor, copybuffer, copystream, updated, update_mode,
          delete_mode, closed, has_copystream, exited, obj, raised, message,
          log, evals, before, value, parsed, files, opt, config_files, done,
          echo>>

sessionVars == <<input, cursor, copybuffer, copystream, updated, update_mode,
                 delete_mode, closed, has_copystream, exited, log>>

exitVars == <<has_copystream, exited>>

evalVars == <<evals, before, value>>

cliVars == <<files, opt, config_files, done, echo>>

-----------------------------------------------------------------------------
(* Python's str operations, on sequences of characters.                    *)

Whitespace == {" ", "\t", "\n", "\r"}

Contains(s, c) == \E i \in 1..Len(s) : s[i] = c

\* s.find(c) + 1: the position of the first c in s, 0 when there is none
IndexOf(s, c) ==
    IF Contains(s, c)
    THEN CHOOSE i \in 1..Len(s) : s[i] = c /\ \A j \in 1..(i - 1) : s[j] # c
    ELSE 0

\* s.strip(chars)
StripChars(s, chars) ==
    LET keep == {i \in 1..Len(s) : s[i] \notin chars}
        lo == CHOOSE i \in keep : \A j \in keep : i <= j
        hi == CHOOSE i \in keep : \A j \in keep : j <= i
    IN  IF keep = {} THEN <<>> ELSE SubSeq(s, lo, hi)

\* s.strip()
Strip(s) == StripChars(s, Whitespace)

\* s.startswith(p)
StartsWith(s, p) == Len(s) >= Len(p) /\ SubSeq(s, 1, Len(p)) = p

\* s.split(c, 1)[0] and s.split(c, 1)[1], for an s that contains c
Before(s, c) == SubSeq(s, 1, IndexOf(s, c) - 1)
After(s, c) == SubSeq(s, IndexOf(s, c) + 1, Len(s))

\* s.split(c): the pieces of s between the occurrences of c
RECURSIVE Split(_, _)
Split(s, c) ==
    IF Contains(s, c)
    THEN <<Before(s, c)>> \o Split(After(s, c), c)
    ELSE <<s>>

\* c.join(parts)
RECURSIVE Join(_, _)
Join(parts, c) ==
    IF parts = <<>> THEN <<>>
    ELSE IF Len(parts) = 1 THEN parts[1]
    ELSE parts[1] \o <<c>> \o Join(Tail(parts), c)

\* "".join(lines)
RECURSIVE Concat(_)
Concat(lines) ==
    IF lines = <<>> THEN <<>> ELSE lines[1] \o Concat(Tail(lines))

\* the lines a text stream yields when iterated: each ends with its "\n",
\* but for a last line that has none
RECURSIVE SplitLines(_)
SplitLines(text) ==
    IF text = <<>> THEN <<>>
    ELSE IF Contains(text, "\n")
    THEN <<SubSeq(text, 1, IndexOf(text, "\n"))>>
         \o SplitLines(After(text, "\n"))
    ELSE <<text>>

\* f"{k:{width}}": k padded with spaces on the right up to width
RECURSIVE Pad(_, _)
Pad(k, width) == IF Len(k) >= width THEN k ELSE Pad(k \o <<" ">>, width)

\* str(n) for an integer n
RECURSIVE Digits(_)
Digits(n) ==
    LET d == <<"0", "1", "2", "3", "4", "5", "6", "7", "8", "9">>
    IN  IF n < 10 THEN <<d[n + 1]>> ELSE Digits(n \div 10) \o <<d[(n % 10) + 1]>>

IntStr(n) == IF n < 0 THEN <<"-">> \o Digits(0 - n) ELSE Digits(n)

-----------------------------------------------------------------------------
(* Python values: t is the type, s the text of a str (or the repr of a     *)
(* float), n the number of an int (or 0/1 of a bool).                      *)

PyStr(s) == [t |-> "str", s |-> s, n |-> 0]
PyInt(n) == [t |-> "int", s |-> <<>>, n |-> n]
PyFloat(repr) == [t |-> "float", s |-> repr, n |-> 0]
PyBool(b) == [t |-> "bool", s |-> <<>>, n |-> IF b THEN 1 ELSE 0]
PyNone == [t |-> "None", s |-> <<>>, n |-> 0]
PyList == [t |-> "list", s |-> <<>>, n |-> 0]
PyDict == [t |-> "dict", s |-> <<>>, n |-> 0]

\* a list of str: s holds the elements
PyListOf(elems) == [t |-> "list", s |-> elems, n |-> 0]

\* f"{v}"
Format(v) ==
    CASE v.t = "str" -> v.s
      [] v.t = "int" -> IntStr(v.n)
      [] v.t = "float" -> v.s
      [] v.t = "bool" -> IF v.n = 1 THEN <<"T", "r", "u", "e">>
                                    ELSE <<"F", "a", "l", "s", "e">>
      [] v.t = "None" -> <<"N", "o", "n", "e">>
      [] v.t = "list" -> <<"[", "]">>
      [] OTHER -> <<"{", "}">>

\* bool(v)
Truthy(v) ==
    CASE v.t = "str" -> v.s # <<>>
      [] v.t = "int" -> v.n # 0
      [] v.t = "float" -> v.s # <<"0", ".", "0">>
      [] v.t = "bool" -> v.n = 1
      [] v.t = "list" -> v.s # <<>>
      [] OTHER -> FALSE

\* v is None or v == ""
IsEmpty(v) == v.t = "None" \/ (v.t = "str" /\ v.s = <<>>)

-----------------------------------------------------------------------------
(* OrderedDict: a sequence of [k, v] items with unique keys, in insertion  *)
(* order.                                                                  *)

Keys(items) == {items[i].k : i \in 1..Len(items)}

KeyIndex(items, k) == CHOOSE i \in 1..Len(items) : items[i].k = k

\* dict.get(k): the stored value, None when k is no key
Get(items, k) == IF k \in Keys(items) THEN items[KeyIndex(items, k)].v ELSE PyNone

\* d[k] = v: an existing key keeps its place, a new key goes last
SetItem(items, k, v) ==
    IF k \in Keys(items)
    THEN [items EXCEPT ![KeyIndex(items, k)] = [k |-> k, v |-> v]]
    ELSE Append(items, [k |-> k, v |-> v])

\* del d[k]
DelItem(items, k) ==
    LET i == KeyIndex(items, k)
    IN  SubSeq(items, 1, i - 1) \o SubSeq(items, i + 1, Len(items))

\* DataObject.update(k, v) on the items of a record
update(items, k, v) ==
    IF IsEmpty(v) /\ k \in Keys(items) THEN DelItem(items, k)
    ELSE SetItem(items, k, v)

-----------------------------------------------------------------------------
(* ObjectDefinition: cls is the class (a registered type's name, or        *)
(* BaseClass), objtype the type tag, items the directives, linenum the     *)
(* source line of the opener (0 when not read from a stream).              *)

registered_types == {
    <<"h", "o", "s", "t">>,
    <<"h", "o", "s", "t", "g", "r", "o", "u", "p">>,
    <<"s", "e", "r", "v", "i", "c", "e">>,
    <<"s", "e", "r", "v", "i", "c", "e", "g", "r", "o", "u", "p">>,
    <<"c", "o", "n", "t", "a", "c", "t">>,
    <<"c", "o", "n", "t", "a", "c", "t", "g", "r", "o", "u", "p">>,
    <<"c", "o", "m", "m", "a", "n", "d">>,
    <<"t", "i", "m", "e", "p", "e", "r", "i", "o", "d">>,
    <<"h", "o", "s", "t", "d", "e", "p", "e", "n", "d", "e", "n", "c", "y">>,
    <<"s", "e", "r", "v", "i", "c", "e", "d", "e", "p", "e", "n", "d", "e", "n", "c", "y">>,
    <<"h", "o", "s", "t", "e", "s", "c", "a", "l", "a", "t", "i", "o", "n">>,
    <<"s", "e", "r", "v", "i", "c", "e", "e", "s", "c", "a", "l", "a", "t", "i", "o", "n">>}

BaseClass == <<"ObjectDefinition">>

\* from_type, had it no registry to look the type up in
from_type_unregistered(objtype, linenum) ==
    [cls |-> BaseClass, objtype |-> objtype, items |-> <<>>,
     linenum |-> linenum]

\* ObjectDefinition.from_type(objtype, linenum=linenum)
from_type(objtype, linenum) ==
    [cls |-> IF objtype \in registered_types THEN objtype ELSE BaseClass,
     objtype |-> objtype, items |-> <<>>, linenum |-> linenum]

\* ObjectDefinition.__eq__
ObjEq(a, b) == a.objtype = b.objtype /\ a.items = b.items

\* the names registered with register_name: computed directives
register_name == {<<"t", "y", "p", "e">>}

\* ObjectDefinition.conversion_table: the directives read as int
conversion_table == {
    <<"a", "c", "t", "i", "v", "e", "_", "c", "h", "e", "c", "k", "s", "_", "e", "n", "a", "b", "l", "e", "d">>,
    <<"c", "h", "e", "c", "k", "_", "f", "r", "e", "s", "h", "n", "e", "s", "s">>,
    <<"c", "h", "e", "c", "k", "_", "i", "n", "t", "e", "r", "v", "a", "l">>,
    <<"e", "v", "e", "n", "t", "_", "h", "a", "n", "d", "l", "e", "r", "_", "e", "n", "a", "b", "l", "e", "d">>,
    <<"f", "i", "r", "s", "t", "_", "n", "o", "t", "i", "f", "i", "c", "a", "t", "i", "o", "n", "_", "d", "e", "l", "a", "y">>,
    <<"f", "l", "a", "p", "_", "d", "e", "t", "e", "c", "t", "i", "o", "n", "_", "e", "n", "a", "b", "l", "e", "d">>,
    <<"f", "r", "e", "s", "h", "n", "e", "s", "s", "_", "t", "h", "r", "e", "s", "h", "o", "l", "d">>,
    <<"h", "i", "g", "h", "_", "f", "l", "a", "p", "_", "t", "h", "r", "e", "s", "h", "o", "l", "d">>,
    <<"h", "o", "u", "r", "l", "y", "_", "v", "a", "l", "u", "e">>,
    <<"i", "s", "_", "v", "o", "l", "a", "t", "i", "l", "e">>,
    <<"l", "o", "w", "_", "f", "l", "a", "p", "_", "t", "h", "r", "e", "s", "h", "o", "l", "d", " ", " ">>,
    <<"m", "a", "x", "_", "c", "h", "e", "c", "k", "_", "a", "t", "t", "e", "m", "p", "t", "s">>,
    <<"n", "o", "t", "i", "f", "i", "c", "a", "t", "i", "o", "n", "_", "i", "n", "t", "e", "r", "v", "a", "l">>,
    <<"n", "o", "t", "i", "f", "i", "c", "a", "t", "i", "o", "n", "s", "_", "e", "n", "a", "b", "l", "e", "d">>,
    <<"o", "b", "s", "e", "s", "s">>,
    <<"o", "b", "s", "e", "s", "s", "_", "o", "v", "e", "r", "_", "h", "o", "s", "t">>,
    <<"o", "b", "s", "e", "s", "s", "_", "o", "v", "e", "r", "_", "s", "e", "r", "v", "i", "c", "e">>,
    <<"p", "a", "s", "s", "i", "v", "e", "_", "c", "h", "e", "c", "k", "s", "_", "e", "n", "a", "b", "l", "e", "d">>,
    <<"p", "r", "o", "c", "e", "s", "s", "_", "p", "e", "r", "f", "_", "d", "a", "t", "a">>,
    <<"r", "e", "g", "i", "s", "t", "e", "r">>,
    <<"r", "e", "t", "a", "i", "n", "_", "n", "o", "n", "s", "t", "a", "t", "u", "s", "_", "i", "n", "f", "o", "r", "m", "a", "t", "i", "o", "n">>,
    <<"r", "e", "t", "a", "i", "n", "_", "s", "t", "a", "t", "u", "s", "_", "i", "n", "f", "o", "r", "m", "a", "t", "i", "o", "n">>,
    <<"r", "e", "t", "r", "y", "_", "i", "n", "t", "e", "r", "v", "a", "l">>}


\* the number written by a sequence of decimal digits
RECURSIVE DigitsValue(_)
DigitsValue(ds) ==
    IF ds = <<>> THEN 0
    ELSE 10 * DigitsValue(SubSeq(ds, 1, Len(ds) - 1))
         + (CHOOSE n \in 0..9 : IntStr(n) = <<ds[Len(ds)]>>)

\* s without the sign it may start with
Unsigned(s) == IF s # <<>> /\ s[1] \in {"+", "-"} THEN Tail(s) ELSE s

\* int(s) succeeds for a str s: decimal digits, with a sign and surrounding
\* whitespace allowed
IsIntLiteral(s) ==
    /\ Unsigned(Strip(s)) # <<>>
    /\ \A i \in 1..Len(Unsigned(Strip(s))) : Unsigned(Strip(s))[i] \in {"0", "1", "2", "3", "4", "5", "6", "7", "8", "9"}

\* int(s) for such a str
IntOfStr(s) ==
    IF Strip(s)[1] = "-" THEN 0 - DigitsValue(Unsigned(Strip(s)))
    ELSE DigitsValue(Unsigned(Strip(s)))

\* int_or_value, had it given None for a str that int does not convert
int_or_value_or_None(v) ==
    CASE v.t = "str" -> IF IsIntLiteral(v.s) THEN PyInt(IntOfStr(v.s))
                        ELSE PyNone
      [] v.t = "float" -> IF Contains(v.s, ".")
                          THEN PyInt(IntOfStr(Before(v.s, ".")))
                          ELSE v
      [] v.t = "bool" -> PyInt(v.n)
      [] OTHER -> v

\* conversion_table[key](value), int(value), with ValueError and TypeError
\* passed over: the value itself when it cannot be converted
int_or_value(v) ==
    CASE v.t = "str" -> IF IsIntLiteral(v.s) THEN PyInt(IntOfStr(v.s)) ELSE v
      [] v.t = "float" -> IF Contains(v.s, ".")
                          THEN PyInt(IntOfStr(Before(v.s, ".")))
                          ELSE v
      [] v.t = "bool" -> PyInt(v.n)
      [] OTHER -> v

\* ObjectDefinition.autoconvert
autoconvert(key, v) == IF key \in conversion_table THEN int_or_value(v) ELSE v

__getitem___stored_first(o, key) ==
    IF key \in Keys(o.items) THEN autoconvert(key, Get(o.items, key))
    ELSE IF key \in register_name THEN PyStr(o.objtype)
    ELSE PyNone

\* DataObject.__getitem__: a registered name first (type gives the type
\* tag), then the stored value converted, and None for a key that is missing
__getitem__(o, key) ==
    IF key \in register_name THEN PyStr(o.objtype)
    ELSE IF key \in Keys(o.items) THEN autoconvert(key, Get(o.items, key))
    ELSE PyNone

\* the directive names the identifiers are made of
host_name == <<"h", "o", "s", "t", "_", "n", "a", "m", "e">>
hostgroup_name == <<"h", "o", "s", "t", "g", "r", "o", "u", "p", "_", "n", "a", "m", "e">>
service_description ==
    <<"s", "e", "r", "v", "i", "c", "e", "_",
      "d", "e", "s", "c", "r", "i", "p", "t", "i", "o", "n">>

\* Service.identifier, had it taken the host group before the host
Service_identifier_group_first(o) ==
    IF Truthy(__getitem__(o, hostgroup_name))
    THEN PyStr(Format(__getitem__(o, hostgroup_name)) \o <<";">>
                   \o Format(__getitem__(o, service_description)))
    ELSE IF Truthy(__getitem__(o, host_name))
    THEN PyStr(Format(__getitem__(o, host_name)) \o <<";">>
                   \o Format(__getitem__(o, service_description)))
    ELSE __getitem__(o, service_description)

\* Service.identifier
Service_identifier(o) ==
    IF Truthy(__getitem__(o, host_name))
    THEN PyStr(Format(__getitem__(o, host_name)) \o <<";">>
                   \o Format(__getitem__(o, service_description)))
    ELSE IF Truthy(__getitem__(o, hostgroup_name))
    THEN PyStr(Format(__getitem__(o, hostgroup_name)) \o <<";">>
                   \o Format(__getitem__(o, service_description)))
    ELSE __getitem__(o, service_description)

\* the identifier property of the class of o: that of Service, that of a
\* type named by a directive, and None in ObjectDefinition and the classes
\* that do not override it
identifier(o) ==
    IF o.cls = <<"s", "e", "r", "v", "i", "c", "e">> THEN Service_identifier(o)
    ELSE IF o.cls \in {
             <<"h", "o", "s", "t">>,
             <<"h", "o", "s", "t", "g", "r", "o", "u", "p">>,
             <<"s", "e", "r", "v", "i", "c", "e", "g", "r", "o", "u", "p">>,
             <<"c", "o", "n", "t", "a", "c", "t">>,
             <<"c", "o", "n", "t", "a", "c", "t", "g", "r", "o", "u", "p">>,
             <<"c", "o", "m", "m", "a", "n", "d">>,
             <<"t", "i", "m", "e", "p", "e", "r", "i", "o", "d">>}
    THEN __getitem__(o, o.cls \o <<"_", "n", "a", "m", "e">>)
    ELSE PyNone

keywidth == 30

\* dump, had it no test for values that are None or ""
DumpItem_unconditional(item) ==
    <<" ", " ", " ", " ">> \o Pad(item.k, keywidth) \o <<" ">>
    \o Format(item.v) \o <<"\n">>

\* one directive line of dump: nothing for a value that is None or ""
DumpItem(item) ==
    IF IsEmpty(item.v) THEN <<>>
    ELSE <<" ", " ", " ", " ">> \o Pad(item.k, keywidth) \o <<" ">>
         \o Format(item.v) \o <<"\n">>

RECURSIVE DumpItems(_)
DumpItems(items) ==
    IF items = <<>> THEN <<>> ELSE DumpItem(items[1]) \o DumpItems(Tail(items))

define == <<"d", "e", "f", "i", "n", "e", " ">>

\* ObjectDefinition.dump(stream) with selected=None: the text written
dump(o) ==
    define \o o.objtype \o <<" ", "{", "\n">> \o DumpItems(o.items)
    \o <<"}", "\n">>

-----------------------------------------------------------------------------
(* The line reader and the object parser.                                  *)

\* DataStream.preprocess_line: the text ahead of the first "#", stripped
preprocess_line(line) ==
    Strip(IF Contains(line, "#") THEN Before(line, "#") ELSE line)

\* the least of a set of line numbers, 0 when there is none
First(S) == IF S = {} THEN 0 ELSE CHOOSE i \in S : \A j \in S : i <= j

\* next(self.lines) after c raw lines were pulled: the number of the next raw
\* line that read_lines yields (one that is not empty once preprocessed), or 0
\* when the stream ends first (StopIteration)
NextData(inp, c) ==
    First({i \in (c + 1)..Len(inp) : preprocess_line(inp[i]) # <<>>})

\* the loop of load that skips lines until one starts with "define ", i being
\* the number of the line next(lines) gave: the number of the "define" line,
\* or 0 when the stream ends first
RECURSIVE FindDefine(_, _)
FindDefine(inp, i) ==
    IF i = 0 THEN 0
    ELSE IF StartsWith(preprocess_line(inp[i]), define) THEN i
    ELSE FindDefine(inp, NextData(inp, i))

\* load, had it stored v as split, without v.strip()
directive_unstripped(line) ==
    [k |-> Before(line, " "), v |-> PyStr(After(line, " "))]

\* k, v = line.split(" ", 1) and the v.strip() that is stored under k
directive(line) == [k |-> Before(line, " "), v |-> PyStr(Strip(After(line, " ")))]

\* the loop of load that reads directives into objdef until a line is "}", i
\* being the number of the line the loop is given (0: the stream has ended):
\* the record and the number of raw lines pulled, or the ValueError of a
\* directive line that has no " " to split at
RECURSIVE ReadDirectives(_, _, _)

\* one pass of that loop, on the line of number i
ReadDirective(inp, i, line, objdef) ==
    IF line = <<"}">>
    THEN [kind |-> "object", obj |-> objdef, cursor |-> i]
    ELSE IF ~Contains(line, " ")
    THEN [kind |-> "RuntimeError", obj |-> objdef, cursor |-> i]
    ELSE ReadDirectives(inp, NextData(inp, i),
             [objdef EXCEPT !.items =
                 SetItem(@, directive(line).k, directive(line).v)])

ReadDirectives(inp, i, objdef) ==
    IF i = 0
    THEN [kind |-> "object", obj |-> objdef, cursor |-> Len(inp)]
    ELSE ReadDirective(inp, i, preprocess_line(inp[i]), objdef)

\* What load returns or raises.  kind is "object", "StopIteration" or
\* "RuntimeError"; opener is the number of the "define" line (0 when none was
\* found: handle_prefix was not called); cursor is the number of raw lines
\* pulled; obj is <<record>> when a record is returned.
Loaded(kind, d, c, o) == [kind |-> kind, opener |-> d, cursor |-> c, obj |-> o]

\* load from from_type on: d is the number of the "define" line, b that of
\* the line that holds the "{" (0 when the stream ended before it)
load_objdef(inp, d, b, objtype) ==
    IF b = 0 THEN Loaded("StopIteration", d, Len(inp), <<>>)
    ELSE LET r == ReadDirectives(inp, NextData(inp, b), from_type(objtype, d))
         IN  Loaded(r.kind, d, r.cursor,
                    IF r.kind = "object" THEN <<r.obj>> ELSE <<>>)

\* load from the "define" line on, line being its text after "define "
load_define(inp, d, line) ==
    IF Contains(line, "{")
    THEN load_objdef(inp, d, d, StripChars(line, {" ", "{"}))
    ELSE load_objdef(inp, d, NextData(inp, d), line)

\* load once its first loop has ended, at line d or with the stream (d = 0)
load_from(inp, d) ==
    IF d = 0 THEN Loaded("StopIteration", 0, Len(inp), <<>>)
    ELSE load_define(inp, d, SubSeq(preprocess_line(inp[d]), Len(define) + 1,
                                    Len(preprocess_line(inp[d]))))

\* ObjectDefinition.load on the lines that follow the first c raw lines
load(inp, c) == load_from(inp, FindDefine(inp, NextData(inp, c)))

\* location, had it counted the lines from 0
location_from_zero(source_file, linenum) ==
    IF source_file # <<>>
    THEN source_file[1] \o <<" ", "l", "i", "n", "e", " ">>
             \o IntStr(linenum - 1)
    ELSE <<"l", "i", "n", "e", " ">> \o IntStr(linenum - 1)

\* the location load cites for the line of number linenum: source_file is
\* <<name>>, or <<>> when load was given no source_file
location(source_file, linenum) ==
    IF source_file # <<>>
    THEN source_file[1] \o <<" ", "l", "i", "n", "e", " ">> \o IntStr(linenum)
    ELSE <<"l", "i", "n", "e", " ">> \o IntStr(linenum)

\* str() of the RuntimeError load raises from the ValueError of
\* "k, v = line.split(" ", 1)" on a line that has no " ", linenum being the
\* number of the last line its loop was given
Unsupported(source_file, linenum) ==
    <<"U", "n", "s", "u", "p", "p", "o", "r", "t", "e", "d", " ",
      "s", "y", "n", "t", "a", "x", " ", "a", "t", " ">>
        \o location(source_file, linenum)
        \o <<":", " ",
             "n", "o", "t", " ", "e", "n", "o", "u", "g", "h", " ",
             "v", "a", "l", "u", "e", "s", " ", "t", "o", " ",
             "u", "n", "p", "a", "c", "k", " ",
             "(", "e", "x", "p", "e", "c", "t", "e", "d", " ", "2", ",", " ",
             "g", "o", "t", " ", "1", ")">>

\* str() of what load raised, r being its outcome
str_exc(r, source_file) ==
    IF r.kind = "RuntimeError" THEN Unsupported(source_file, r.cursor)
    ELSE <<>>

-----------------------------------------------------------------------------
(* Update expressions.  An expression is [op, target, rhs]: op is "=", "+="  *)
(* or "-=", target the directive named on the left, rhs the value the      *)
(* right-hand side evaluates to.                                           *)

\* Expression.eval builds ChainMap(names or {}, ...): dataobject is the record
\* when the record is truthy (has a directive), and a new plain dict otherwise
dataobject_is_names(o) == o.items # <<>>

\* list.remove(x): the list without its first element equal to x
RemoveFirst(list, x) ==
    LET i == CHOOSE i \in 1..Len(list) :
                 list[i] = x /\ \A j \in 1..(i - 1) : list[j] # x
    IN  SubSeq(list, 1, i - 1) \o SubSeq(list, i + 1, Len(list))

\* x in list, for a list of str
InList(list, x) == x.t = "str" /\ \E i \in 1..Len(list) : list[i] = x.s

Result(o, v, exc) == [obj |-> o, value |-> v, raised |-> exc]

\* self.dataobject.update(k, v): DataObject.update on the record; dict.update
\* takes one positional argument, so on a plain dict the call is a TypeError
dataobject_update(o, k, v) ==
    IF dataobject_is_names(o)
    THEN Result([o EXCEPT !.items = update(@, k, v)], v, "")
    ELSE Result(o, PyNone, "TypeError")

\* ObjdefUpdate._eval_assign
_eval_assign(e, o) ==
    IF e.rhs.t \notin {"None", "str", "int", "float"}
    THEN Result(o, PyNone, "RuntimeError")
    ELSE dataobject_update(o, e.target, e.rhs)

\* ObjdefUpdate._eval_aug_assign, for the operators += and -=
_eval_aug_assign(e, o) ==
    LET stored == IF dataobject_is_names(o) THEN Get(o.items, e.target)
                  ELSE PyNone
        left_value == IF Truthy(stored) THEN Split(stored.s, ",") ELSE <<>>
        appended == e.op = "+=" /\ ~InList(left_value, e.rhs)
        list == IF appended THEN Append(left_value, e.rhs.s)
                ELSE IF e.op = "-=" /\ InList(left_value, e.rhs)
                THEN RemoveFirst(left_value, e.rhs.s)
                ELSE left_value
        joined == PyStr(Join(list, ","))
        r == dataobject_update(o, e.target, joined)
    IN  IF Truthy(stored) /\ stored.t # "str"
        THEN Result(o, PyNone, "AttributeError")
        ELSE IF appended /\ e.rhs.t # "str"
        THEN Result(o, PyNone, "TypeError")
        ELSE IF r.raised # "" THEN r
        ELSE Result(r.obj, IF Truthy(joined) THEN joined ELSE PyNone, "")

\* eval, had it bound self.names at the first evaluation only: a later
\* evaluation runs on the record of the evaluation before it
eval_bound_once(e, o) ==
    IF e.op = "="
    THEN _eval_assign(e, IF before = <<>> THEN o ELSE before[1])
    ELSE _eval_aug_assign(e, IF before = <<>> THEN o ELSE before[1])

\* Expression.eval(names) of an update expression against the record o
eval(e, o) ==
    IF e.op = "=" THEN _eval_assign(e, o) ELSE _eval_aug_assign(e, o)

-----------------------------------------------------------------------------
(* Filter expressions.  An expression is [op, args]: args are operands, a  *)
(* constant or a name.  op is "in" or "not in" (left, right), "has_member" *)
(* (collection, members...), "=" or "+=" (target, right-hand side), or     *)
(* "name" (a bare name).                                                   *)

Const(v) == [kind |-> "const", name |-> <<>>, v |-> v]
Name(k) == [kind |-> "name", name |-> k, v |-> PyNone]

\* self.names[node.id] on ChainMap(names or {}, DEFAULT_NAMES): the record,
\* when it is the first map, answers for every key; a plain dict answers for
\* none, and the KeyError becomes NameNotDefined
_eval_name(o, k) ==
    IF dataobject_is_names(o) THEN Result(o, __getitem__(o, k), "")
    ELSE Result(o, PyNone, "NameNotDefined")

\* self._eval(node) for an operand
_eval_operand(o, x) ==
    IF x.kind = "const" THEN Result(o, x.v, "") ELSE _eval_name(o, x.name)

\* p in s, for two str
Substring(p, s) ==
    \E i \in 0..(Len(s) - Len(p)) : SubSeq(s, i + 1, i + Len(p)) = p

\* a in b, for a b that is not empty
contains(a, b) ==
    CASE b.t = "str" -> IF a.t = "str"
                        THEN Result(<<>>, PyBool(Substring(a.s, b.s)), "")
                        ELSE Result(<<>>, PyNone, "TypeError")
      [] b.t = "list" -> Result(<<>>, PyBool(InList(b.s, a)), "")
      [] OTHER -> Result(<<>>, PyNone, "TypeError")

\* ObjdefFilter.in_collection
in_collection(a, b) ==
    IF ~Truthy(b) THEN Result(<<>>, PyBool(FALSE), "") ELSE contains(a, b)

\* not r.value, for the outcome r of a call
Not(r) == IF r.raised # "" THEN r ELSE Result(r.obj, PyBool(~Truthy(r.value)), "")

not_in_collection_strict(a, b) ==
    IF b.t = "None" THEN Result(<<>>, PyNone, "TypeError")
    ELSE IF ~Truthy(b) THEN Result(<<>>, PyBool(TRUE), "")
    ELSE Not(contains(a, b))

\* ObjdefFilter.not_in_collection
not_in_collection(a, b) == Not(in_collection(a, b))

\* {member.strip() for member in collection.split(",")}
Members(collection) ==
    {Strip(Split(collection, ",")[i]) : i \in 1..Len(Split(collection, ","))}

\* all(member in collection for member in members) for a collection that is
\* not a str: a list is searched, anything else is not iterable
all_in(collection, members) ==
    IF members = <<>> THEN Result(<<>>, PyBool(TRUE), "")
    ELSE IF collection.t = "list"
    THEN Result(<<>>, PyBool(\A i \in 1..Len(members) :
                                InList(collection.s, members[i])), "")
    ELSE Result(<<>>, PyNone, "TypeError")

has_member_vacuous(collection, members) ==
    IF ~Truthy(collection) THEN Result(<<>>, PyBool(members = <<>>), "")
    ELSE IF collection.t = "str"
    THEN Result(<<>>, PyBool(\A i \in 1..Len(members) :
                                /\ members[i].t = "str"
                                /\ members[i].s \in Members(collection.s)), "")
    ELSE all_in(collection, members)

\* ObjdefFilter.has_member, for members that are str, int or None
has_member(collection, members) ==
    IF ~Truthy(collection) THEN Result(<<>>, PyBool(FALSE), "")
    ELSE IF collection.t = "str"
    THEN Result(<<>>, PyBool(\A i \in 1..Len(members) :
                                /\ members[i].t = "str"
                                /\ members[i].s \in Members(collection.s)), "")
    ELSE all_in(collection, members)

\* the values of the operands args of an expression, evaluated from left to
\* right against the record o
Values(o, args) == [i \in 1..Len(args) |-> _eval_operand(o, args[i]).value]

\* the first exception among them, "" when there is none
FirstRaised(o, args) ==
    IF \A i \in 1..Len(args) : _eval_operand(o, args[i]).raised = "" THEN ""
    ELSE _eval_operand(o, args[CHOOSE i \in 1..Len(args) :
             /\ _eval_operand(o, args[i]).raised # ""
             /\ \A j \in 1..(i - 1) : _eval_operand(o, args[j]).raised = ""]
         ).raised

\* the operator or function of a filter expression, applied to the values vs
apply(op, vs) ==
    CASE op = "in" -> in_collection(vs[1], vs[2])
      [] op = "not in" -> not_in_collection(vs[1], vs[2])
      [] op = "has_member" -> has_member(vs[1], Tail(vs))
      [] OTHER -> Result(<<>>, vs[Len(vs)], "")

filter_assign_applied(e, o) ==
    IF e.op \in {"=", "+="}
    THEN eval([op |-> e.op, target |-> e.args[1].name, rhs |-> e.args[2].v], o)
    ELSE Result(o, PyNone, "")

\* the assignment forms in an ObjdefFilter: ObjdefFilter overrides neither
\* _eval_assign nor _eval_aug_assign, so the assignment is not carried out
\* and the record is left as it is
filter_assign(e, o) == Result(o, PyNone, "")

\* the operands an expression evaluates: the target of an assignment is not
Evaluated(e) == IF e.op \in {"=", "+="} THEN Tail(e.args) ELSE e.args

\* Expression.eval(names) of a filter expression against the record o
filter_eval(e, o) ==
    IF FirstRaised(o, Evaluated(e)) # ""
    THEN Result(o, PyNone, FirstRaised(o, Evaluated(e)))
    ELSE Result(filter_assign(e, o).obj,
                apply(e.op, Values(o, Evaluated(e))).value,
                apply(e.op, Values(o, Evaluated(e))).raised)

-----------------------------------------------------------------------------
(* DataFile in update mode.  The handlers are functions of the session's   *)
(* fields, gathered in a record.                                           *)

Self == [copybuffer |-> copybuffer, copystream |-> copystream,
         updated |-> updated, update_mode |-> update_mode,
         delete_mode |-> delete_mode, has_copystream |-> has_copystream]

\* a file that does not exist, and one that does
Absent == [exists |-> FALSE, mtime |-> 0, content |-> <<>>]
File(mtime, content) == [exists |-> TRUE, mtime |-> mtime, content |-> content]

\* DataFile.name, and DataFile.updated_name: the name of the temporary file
\* that NamedTemporaryFile gave the copystream
self_name == <<"p">>
updated_name == <<"t", "m", "p">>

TRANSACTION_SUFFIX == <<".", "n", "a", "c", "l", "n", "e", "w">>

\* the name of the transaction file of a config file
Transaction(name) == name \o TRANSACTION_SUFFIX

\* shutil.move(src, dst) of the file src to the file name dst, on one
\* file system: dst is replaced, and src is no more
move(fs, src, dst) == [fs EXCEPT ![dst] = fs[src], ![src] = Absent]

BACKUP_SUFFIX == <<".", "n", "a", "c", "l", "o", "l", "d">>

\* the name of the backup file of a config file
Backup(name) == name \o BACKUP_SUFFIX

\* the file system DataFile.__init__ leaves: the file it opened, and the
\* temporary file when update_mode was passed; no transaction file and no
\* backup file
opened(inp, copy) ==
    [n \in {self_name, updated_name, Transaction(self_name),
            Backup(self_name)} |->
        IF n = self_name THEN File(1, Concat(inp))
        ELSE IF n = updated_name /\ copy THEN File(1, <<>>)
        ELSE Absent]

\* DataFile.preprocess_line, for each raw line of lines in turn: the raw line
\* is buffered before it is processed
buffer_lines(self, lines) ==
    IF self.update_mode
    THEN [self EXCEPT !.copybuffer = @ \o lines]
    ELSE self

\* handle_prefix, had it deleted the buffered lines without writing them
handle_prefix_unwritten(self) ==
    IF self.update_mode /\ ~self.delete_mode
    THEN [self EXCEPT !.copybuffer = SubSeq(@, Len(@), Len(@))]
    ELSE self

\* DataFile.handle_prefix
handle_prefix(self) ==
    IF self.update_mode /\ ~self.delete_mode
    THEN [self EXCEPT
             !.copystream = @ \o Concat(SubSeq(self.copybuffer, 1,
                                               Len(self.copybuffer) - 1)),
             !.copybuffer = SubSeq(@, Len(@), Len(@))]
    ELSE self

\* handle_unchanged, had it written the buffered lines without clearing them
handle_unchanged_uncleared(self) ==
    IF self.update_mode
    THEN [self EXCEPT !.copystream = @ \o Concat(self.copybuffer)]
    ELSE self

\* handle_unchanged, had it counted as an edit
handle_unchanged_flagging(self) ==
    IF self.update_mode
    THEN [self EXCEPT !.copystream = @ \o Concat(self.copybuffer),
                      !.copybuffer = <<>>,
                      !.updated = TRUE]
    ELSE self

\* DataFile.handle_unchanged
handle_unchanged(self) ==
    IF self.update_mode
    THEN [self EXCEPT !.copystream = @ \o Concat(self.copybuffer),
                      !.copybuffer = <<>>]
    ELSE self

\* handle_update, had it deleted the block only when it is given no record
handle_update_record_first(self, o) ==
    IF o = <<>>
    THEN [self EXCEPT !.copybuffer = <<>>, !.updated = TRUE]
    ELSE IF self.update_mode
    THEN [self EXCEPT !.copybuffer = <<>>,
                      !.copystream = @ \o dump(o[1]),
                      !.updated = TRUE]
    ELSE self

\* handle_update, had it dumped the record without clearing the buffer
handle_update_uncleared(self, o) ==
    IF self.delete_mode \/ o = <<>>
    THEN [self EXCEPT !.copybuffer = <<>>, !.updated = TRUE]
    ELSE IF self.update_mode
    THEN [self EXCEPT !.copystream = @ \o dump(o[1]), !.updated = TRUE]
    ELSE self

\* DataFile.handle_update(o), o being <<>> for None and <<record>> otherwise
handle_update(self, o) ==
    IF self.delete_mode \/ o = <<>>
    THEN [self EXCEPT !.copybuffer = <<>>, !.updated = TRUE]
    ELSE IF self.update_mode
    THEN [self EXCEPT !.copybuffer = <<>>,
                      !.copystream = @ \o dump(o[1]),
                      !.updated = TRUE]
    ELSE self

\* DataFile.read_object, r being what load returns or raises: load pulls raw
\* lines through preprocess_line, which buffers them, and calls handle_prefix
\* when it has pulled the "define" line
read_object_with(self, inp, c, r) ==
    [kind |-> r.kind, obj |-> r.obj, cursor |-> r.cursor,
     self |-> IF r.opener = 0
              THEN buffer_lines(self, SubSeq(inp, c + 1, r.cursor))
              ELSE buffer_lines(
                       handle_prefix(
                           buffer_lines(self, SubSeq(inp, c + 1, r.opener))),
                       SubSeq(inp, r.opener + 1, r.cursor))]

\* DataFile.read_object in a session that has no copybuffer: preprocess_line
\* raises AttributeError on the first raw line that is pulled
read_object_unbuffered(self, inp, c) ==
    [kind |-> IF c < Len(inp) THEN "AttributeError" ELSE "StopIteration",
     obj |-> <<>>,
     cursor |-> IF c < Len(inp) THEN c + 1 ELSE c,
     self |-> self]

\* DataFile.read_object: the session afterwards, and the outcome of load
read_object(self, inp, c) ==
    IF self.update_mode /\ ~self.has_copystream
    THEN read_object_unbuffered(self, inp, c)
    ELSE read_object_with(self, inp, c, load(inp, c))

SetSelf(self) ==
    /\ copybuffer' = self.copybuffer
    /\ copystream' = self.copystream
    /\ updated' = self.updated
    /\ UNCHANGED <<update_mode, delete_mode>>

-----------------------------------------------------------------------------
(* The operations of a session.  raised holds the exception that ended the *)
(* last call: "StopIteration" ends read_objects normally, anything else    *)
(* leaves the caller's with block, where only close can follow.            *)

\* DataStream.read_objects, from one yield to the next: read_object is called
\* until it returns a truthy record (one with a directive), which is yielded,
\* or raises; a record with no directive is falsy and is passed over
RECURSIVE read_objects(_, _, _)

\* "if obj: yield obj", r being the outcome of read_object
read_objects_yield(inp, r) ==
    IF r.kind = "object" /\ r.obj[1].items = <<>>
    THEN read_objects(r.self, inp, r.cursor)
    ELSE r

read_objects(self, inp, c) ==
    read_objects_yield(inp, read_object(self, inp, c))

\* the session and the caller's record once read_objects has yielded or ended
Yielded(r) ==
    /\ SetSelf(r.self)
    /\ cursor' = r.cursor
    /\ obj' = r.obj
    /\ raised' = IF r.kind = "object" THEN "" ELSE r.kind

\* the caller pulls the next record from read_objects; it holds no undecided
\* record.  load is given source_file=self by a DataFile, when a file was
\* opened, and no source_file by a DataStream
ReadObject ==
    /\ ~closed /\ raised = "" /\ obj = <<>>
    /\ Yielded(read_objects(Self, input, cursor))
    /\ message' = str_exc(read_objects(Self, input, cursor),
                          IF files = <<>> THEN <<>> ELSE <<self_name>>)
    /\ evals' = <<>>
    /\ before' = <<>>
    /\ value' = PyNone
    /\ UNCHANGED <<input, closed, log, parsed, cliVars, exitVars>>

Entry(kind, o, c, text) ==
    [kind |-> kind, opener |-> o.linenum, closer |-> c, text |-> text]

\* the caller submits "unchanged" for the record it holds
HandleUnchanged ==
    /\ ~closed /\ raised = "" /\ obj # <<>>
    /\ SetSelf(handle_unchanged(Self))
    /\ log' = Append(log, Entry("unchanged", obj[1], cursor, <<>>))
    /\ obj' = <<>>
    /\ UNCHANGED <<input, cursor, closed, raised, evals, before, value, parsed,
                   cliVars, message, exitVars>>

\* the caller submits "updated" for the record it holds, passing the record
\* or None
HandleUpdate ==
    /\ ~closed /\ raised = "" /\ obj # <<>>
    /\ \E o \in {obj, <<>>} :
          /\ SetSelf(handle_update(Self, o))
          /\ log' = Append(log,
                 IF delete_mode \/ o = <<>>
                 THEN Entry("deleted", obj[1], cursor, <<>>)
                 ELSE Entry("updated", obj[1], cursor, dump(obj[1])))
    /\ obj' = <<>>
    /\ UNCHANGED <<input, cursor, closed, raised, evals, before, value, parsed,
                   cliVars, message, exitVars>>

\* DataFile.close: handle_unchanged, then both handles are closed.  In a
\* session that has no copystream handle_unchanged raises AttributeError, and
\* neither handle is closed
close ==
    IF has_copystream
    THEN /\ SetSelf(handle_unchanged(Self))
         /\ closed' = TRUE
         /\ UNCHANGED raised
    ELSE /\ raised' = "AttributeError"
         /\ UNCHANGED <<copybuffer, copystream, updated, update_mode,
                        delete_mode, closed>>

\* DataFile.close, when the caller is done with the file: read_objects has
\* ended, a call has raised, or the caller stops after a decision
Close ==
    /\ ~closed /\ ~exited
    /\ raised # "" \/ (obj = <<>> /\ log # <<>>)
    /\ close
    /\ UNCHANGED <<input, cursor, obj, log, evals, before, value, parsed,
                   cliVars, message, exitVars>>

\* __exit__, had it left the temporary file where it is
__exit___keeping_copy ==
    /\ ~exited
    /\ closed \/ raised # "" \/ (obj = <<>> /\ log # <<>>)
    /\ exited' = TRUE
    /\ IF closed
       THEN UNCHANGED <<copybuffer, copystream, updated, update_mode,
                        delete_mode, closed, raised>>
       ELSE close
    /\ UNCHANGED <<input, cursor, obj, log, evals, before, value, parsed,
                   has_copystream, files, opt, config_files, done, echo,
                   message>>

\* DataFile.__exit__, when the with block of the session is left: close (on
\* handles that are closed already it changes nothing), then os.remove of
\* the temporary file
__exit__ ==
    /\ ~exited
    /\ closed \/ raised # "" \/ (obj = <<>> /\ log # <<>>)
    /\ exited' = TRUE
    /\ IF closed
       THEN UNCHANGED <<copybuffer, copystream, updated, update_mode,
                        delete_mode, closed, raised>>
       ELSE close
    /\ files' = IF has_copystream
                THEN [files EXCEPT ![updated_name] = Absent]
                ELSE files
    /\ UNCHANGED <<input, cursor, obj, log, evals, before, value, parsed,
                   has_copystream, opt, config_files, done, echo,
                   message>>

\* update.eval(objdef) for one of the update expressions in E; at most
\* max evaluations against one record
EvalUpdate(E, max) ==
    /\ ~closed /\ raised = "" /\ obj # <<>>
    /\ Len(evals) < max
    /\ \E e \in E :
          LET r == eval(e, obj[1])
          IN  /\ obj' = <<r.obj>>
              /\ value' = r.value
              /\ raised' = r.raised
              /\ evals' = Append(evals, e)
    /\ before' = obj
    /\ UNCHANGED <<sessionVars, parsed, cliVars, message>>

\* f.eval(objdef) for one of the filter expressions in E; at most max
\* evaluations against one record
EvalFilter(E, max) ==
    /\ ~closed /\ raised = "" /\ obj # <<>>
    /\ Len(evals) < max
    /\ \E e \in E :
          /\ obj' = <<filter_eval(e, obj[1]).obj>>
          /\ value' = filter_eval(e, obj[1]).value
          /\ raised' = filter_eval(e, obj[1]).raised
          /\ evals' = Append(evals, e)
    /\ before' = obj
    /\ UNCHANGED <<sessionVars, parsed, cliVars, message>>

-----------------------------------------------------------------------------
(* The files the sessions are run on: up to MaxSegments segments, each a   *)
(* run of lines, with or without a newline at the end of the last line.    *)

Comment == <<"#", " ", "c">>
Blank == <<>>
Text == <<"x">>
OpenHost == define \o <<"h", "o", "s", "t", " ", "{">>
OpenOther == define \o <<"t", "{">>
DirA == <<" ", " ", "a", " ", "x">>
Bad == <<"b", "a", "d">>
Closer == <<"}">>

Segments == {
    <<Comment, Blank, Text>>,
    <<OpenHost, DirA, Closer>>,
    <<define \o <<"h", "o", "s", "t">>, <<"{">>,
      <<" ", "b", " ", " ", "x", ",", "y", " ", "#", "c">>, Comment, Closer>>,
    <<OpenOther, Closer>>,
    <<OpenHost, Bad, Closer>>,
    <<OpenHost, DirA>>}

MaxSegments == 3

\* the raw lines of a file made of the line bodies: each gets its "\n",
\* the last one only when final_newline
RawLines(bodies, final_newline) ==
    [i \in 1..Len(bodies) |->
        IF i < Len(bodies) \/ final_newline THEN bodies[i] \o <<"\n">>
        ELSE bodies[i]]

Files ==
    {RawLines(Concat(segs), nl) :
        segs \in UNION {[1..m -> Segments] : m \in 0..MaxSegments},
        nl \in BOOLEAN}

\* the update expressions of a session, and how many of them are evaluated
\* against one record
MaxSessionEvals == 1

Key_a == <<"a">>
Key_b == <<"b">>
Key_c == <<"c">>
Key_type == <<"t", "y", "p", "e">>

SessionExprs == {
    [op |-> "=", target |-> Key_a, rhs |-> PyInt(0)],
    [op |-> "=", target |-> Key_a, rhs |-> PyNone]}

\* DataFile.__init__, as the command line opens it for --update or --delete
Init ==
    /\ input \in Files
    /\ cursor = 0
    /\ copybuffer = <<>>
    /\ copystream = <<>>
    /\ updated = FALSE
    /\ update_mode = TRUE
    /\ delete_mode \in BOOLEAN
    /\ closed = FALSE
    /\ has_copystream \in BOOLEAN
    /\ has_copystream \/ delete_mode
    /\ exited = FALSE
    /\ obj = <<>>
    /\ raised = ""
    /\ message = <<>>
    /\ log = <<>>
    /\ evals = <<>>
    /\ before = <<>>
    /\ value = PyNone
    /\ parsed = <<>>
    /\ files = opened(input, has_copystream)
    /\ opt = <<>>
    /\ config_files = <<>>
    /\ done = 0
    /\ echo = <<>>

Next ==
    \/ ReadObject
    \/ EvalUpdate(SessionExprs, MaxSessionEvals)
    \/ HandleUnchanged
    \/ HandleUpdate
    \/ Close
    \/ __exit__

Spec == Init /\ [][Next]_vars

-----------------------------------------------------------------------------
(* What a rewritten file is expected to hold, from the input and the       *)
(* decisions alone: the lines from pos on, each decided block given by the *)
(* line number of its opener and of the last line read for it.  An         *)
(* unchanged block is copied with everything ahead of it; an updated block *)
(* is replaced by the text dumped for it and a deleted block by nothing;   *)
(* the lines ahead of a replaced or deleted block are copied when          *)
(* keep_prefix, and dropped with it otherwise.                             *)

RECURSIVE Rewritten(_, _, _, _)
Rewritten(inp, decisions, pos, keep_prefix) ==
    IF decisions = <<>> THEN Concat(SubSeq(inp, pos, Len(inp)))
    ELSE LET d == Head(decisions)
             block == IF d.kind = "unchanged"
                      THEN Concat(SubSeq(inp, pos, d.closer))
                      ELSE (IF keep_prefix
                            THEN Concat(SubSeq(inp, pos, d.opener - 1))
                            ELSE <<>>) \o d.text
         IN  block \o Rewritten(inp, Tail(decisions), d.closer + 1, keep_prefix)

\* the session read its input to the end, decided every record, and was closed
Finished == closed /\ raised = "StopIteration"

Kinds == {log[i].kind : i \in 1..Len(log)}

C3_DeleteRemovesBlockOnly ==
    (Finished /\ delete_mode) => copystream = Rewritten(input, log, 1, TRUE)

\* C23 as claimed: once the with block of a session has been left, by
\* whatever path, both handles are closed and no temporary file remains
C23_ExitReleasesEverything ==
    exited => closed /\ ~files[updated_name].exists

\* the step is a decision on the record held: the log gets an entry
Decided == Len(log') = Len(log) + 1

\* C31: when handle_unchanged or handle_update returns, the buffer of raw
\* lines is empty, and the lines it held have been written to the copy as
\* they were (unchanged) or have not been written at all (updated: the copy
\* gets the record's dump alone; deleted: the copy gets nothing)
C31_BufferFlushedOnDecision ==
    [][Decided =>
          /\ copybuffer' = <<>>
          /\ log'[Len(log')].kind = "unchanged" =>
                copystream' = copystream \o Concat(copybuffer)
          /\ log'[Len(log')].kind = "updated" =>
                copystream' = copystream \o log'[Len(log')].text
          /\ log'[Len(log')].kind = "deleted" =>
                copystream' = copystream]_vars

\* a session that has submitted each of the three decisions, each on a
\* buffer of more than one line
C31_Witness ==
    /\ Kinds = {"unchanged", "updated", "deleted"}
    /\ \A i \in 1..Len(log) : log[i].closer > log[i].opener
    /\ copybuffer = <<>>

\* the caller stopped pulling records right after an "updated" or "deleted"
\* decision, as main does when --limit is reached, and closed the file for
\* promotion
StoppedAtLimit ==
    /\ closed /\ raised = "" /\ obj = <<>>
    /\ log # <<>> /\ log[Len(log)].kind # "unchanged"

\* C32 as claimed: the copy that is promoted after processing stopped at the
\* limit holds every line of the input that follows the last decided
\* record, as well as what the decisions made of the lines before
C32_LimitKeepsRest ==
    (StoppedAtLimit /\ ~delete_mode) =>
        copystream = Rewritten(input, log, 1, TRUE)

C36_DeleteOnlySession ==
    (update_mode /\ delete_mode /\ cursor > 0) =>
        /\ has_copystream
        /\ raised # "AttributeError"

\* C39: in a delete-mode session the decision handle_update is a delete,
\* with a record or with None, and whatever update expressions did to the
\* record: the step writes nothing to the copystream, drops the buffered
\* lines of the block and sets the updated flag.
C39_DeleteTakesPrecedence ==
    [][(/\ delete_mode
        /\ Decided
        /\ log'[Len(log')].kind # "unchanged")
          => /\ log'[Len(log')].kind = "deleted"
             /\ copystream' = copystream
             /\ copybuffer' = <<>>
             /\ updated']_vars

\* handle_update has been called in a delete-mode session for a record that
\* an update expression had changed
C39_Witness ==
    /\ delete_mode
    /\ log # <<>>
    /\ log[Len(log)].kind = "deleted"
    /\ cursor = log[Len(log)].closer
    /\ obj = <<>>
    /\ evals # <<>>
    /\ before # <<>>
    /\ eval(evals[Len(evals)], before[1]).obj # before[1]
    /\ updated





-----------------------------------------------------------------------------
(* Update expressions evaluated against a record, outside any session.     *)

\* no file is open
NoSession ==
    /\ input = <<>>
    /\ cursor = 0
    /\ copybuffer = <<>>
    /\ copystream = <<>>
    /\ updated = FALSE
    /\ update_mode = FALSE
    /\ delete_mode = FALSE
    /\ closed = FALSE
    /\ has_copystream = FALSE
    /\ exited = FALSE
    /\ raised = ""
    /\ message = <<>>
    /\ log = <<>>
    /\ evals = <<>>
    /\ before = <<>>
    /\ value = PyNone
    /\ parsed = <<>>

\* no session is open and main has not been invoked
Idle ==
    /\ NoSession
    /\ files = <<>>
    /\ opt = <<>>
    /\ config_files = <<>>
    /\ done = 0
    /\ echo = <<>>

Host(items) == [from_type(<<"h", "o", "s", "t">>, 0) EXCEPT !.items = items]

Item(k, s) == [k |-> k, v |-> PyStr(s)]

UpdateRecords == {
    Host(<<>>),
    Host(<<Item(Key_a, <<"x">>)>>),
    Host(<<Item(Key_a, <<"x", ",", "y", ",", "x">>), Item(Key_b, <<"y">>)>>)}

UpdateValues == {
    PyStr(<<"x">>), PyStr(<<"y">>), PyStr(<<"x", ",", "y">>), PyStr(<<>>),
    PyNone, PyInt(5), PyFloat(<<"1", ".", "5">>), PyBool(TRUE), PyList, PyDict}

UpdateExprs ==
    [op : {"=", "+=", "-="}, target : {Key_a, Key_b, Key_type},
     rhs : UpdateValues]

MaxEvals == 2

InitUpdate == Idle /\ obj \in {<<r>> : r \in UpdateRecords}

NextUpdate == EvalUpdate(UpdateExprs, MaxEvals)

SpecUpdate == InitUpdate /\ [][NextUpdate]_vars

LastEval == evals[Len(evals)]

\* the list a stored value stands for: its pieces between commas, and no
\* element when the directive is absent or empty
ListOf(items, k) ==
    LET v == Get(items, k)
    IN  IF v.t = "str" /\ v.s # <<>> THEN Split(v.s, ",") ELSE <<>>

Elements(list) == {list[i] : i \in 1..Len(list)}

\* C6 as claimed: k += m, for a string m, appends m to the list stored under
\* k unless m is an element already, keeps the other elements in place, and
\* evaluating it a second time changes nothing
C6_AugAddAppendsOnce ==
    (evals # <<>> /\ LastEval.op = "+=" /\ LastEval.rhs.t = "str"
        /\ LastEval.rhs.s # <<>>) =>
        LET e == LastEval
            old == ListOf(before[1].items, e.target)
        IN  /\ raised = ""
            /\ ListOf(obj[1].items, e.target) =
                   IF e.rhs.s \in Elements(old) THEN old
                   ELSE Append(old, e.rhs.s)
            /\ eval(e, obj[1]).obj = obj[1]

\* C7 as claimed: k -= m, for a string m, completes without error, removes
\* the first element equal to m from the list stored under k and nothing
\* else, and leaves the list as it is when m is no element
C7_AugSubRemovesFirst ==
    (evals # <<>> /\ LastEval.op = "-=" /\ LastEval.rhs.t = "str") =>
        LET e == LastEval
            old == ListOf(before[1].items, e.target)
        IN  /\ raised = ""
            /\ ListOf(obj[1].items, e.target) =
                   IF e.rhs.s \in Elements(old) THEN RemoveFirst(old, e.rhs.s)
                   ELSE old

\* C8 as claimed: after a += or -= that leaves the list empty (it returns
\* None), the directive is no key of the record
C8_EmptyListRemovesDirective ==
    (evals # <<>> /\ LastEval.op \in {"+=", "-="} /\ raised = ""
        /\ value = PyNone) =>
        LastEval.target \notin Keys(obj[1].items)

\* the items without the one of key k
Without(items, k) == SelectSeq(items, LAMBDA it : it.k # k)

\* C9 as claimed: after k = None or k = "", k is no key of the record and the
\* other directives are as they were, in the same order
C9_AssignEmptyRemoves ==
    (evals # <<>> /\ LastEval.op = "=" /\ IsEmpty(LastEval.rhs)) =>
        /\ LastEval.target \notin Keys(obj[1].items)
        /\ obj[1].items = Without(before[1].items, LastEval.target)

\* C10 as claimed: k = e succeeds, storing and returning the value, exactly
\* when the value is a str, an int, a float or None; otherwise it raises and
\* the record is as it was
C10_AssignTypeGate ==
    (evals # <<>> /\ LastEval.op = "=") =>
        LET e == LastEval
        IN  /\ (raised = "") <=> (e.rhs.t \in {"str", "int", "float", "None"})
            /\ raised = "" => /\ value = e.rhs
                              /\ ~IsEmpty(e.rhs) =>
                                     Get(obj[1].items, e.target) = e.rhs
            /\ raised # "" => obj = before

\* the keys of the directive lines of a dumped text
DumpedKeys(text) ==
    {Before(preprocess_line(line), " ") :
        line \in {l \in Elements(SplitLines(text)) :
                     Contains(preprocess_line(l), " ")
                     /\ ~StartsWith(l, define)}}

\* C11 as claimed: after an update expression that assigns a string to the
\* computed name "type", or augments it with one, the record stores no "type"
\* directive and its dump has no "type" line
C11_ComputedNameNotStored ==
    (evals # <<>> /\ LastEval.target = Key_type /\ LastEval.rhs.t = "str"
        /\ LastEval.rhs.s # <<>>) =>
        /\ Key_type \notin Keys(obj[1].items)
        /\ Key_type \notin DumpedKeys(dump(obj[1]))

-----------------------------------------------------------------------------
(* Filter and update expressions evaluated against a record, in any order. *)

Key_register == <<"r", "e", "g", "i", "s", "t", "e", "r">>

FilterRecords == {
    Host(<<>>),
    Host(<<Item(Key_a, <<"x", " ", ",", " ", "y">>)>>),
    Host(<<Item(Key_a, <<"x">>), Item(Key_register, <<"0", "7">>)>>)}

\* the right operands of in and not in
Collections == {
    Const(PyNone), Const(PyStr(<<>>)), Const(PyList), Const(PyInt(0)),
    Const(PyStr(<<"x", "y">>)), Const(PyListOf(<<<<"x">>>>)),
    Name(Key_a), Name(Key_b), Name(Key_register)}

\* the member lists has_member is called with
MemberLists == {
    <<>>,
    <<Const(PyStr(<<"x">>))>>,
    <<Const(PyStr(<<"y">>)), Const(PyStr(<<"x">>))>>,
    <<Const(PyStr(<<" ", "y">>))>>,
    <<Const(PyStr(<<"x">>)), Name(Key_b)>>}

FilterExprs ==
    {[op |-> op, args |-> <<l, r>>] :
        op \in {"in", "not in"},
        l \in {Const(PyStr(<<"x">>)), Const(PyInt(1))},
        r \in Collections}
    \cup {[op |-> "has_member", args |-> <<c>> \o ms] :
        c \in {Const(PyNone), Const(PyStr(<<>>)), Name(Key_a), Name(Key_b),
               Name(Key_register)},
        ms \in MemberLists}
    \cup {[op |-> op, args |-> <<Name(k), r>>] :
        op \in {"=", "+="},
        k \in {Key_a, Key_type},
        r \in {Const(PyStr(<<"z">>)), Name(Key_b)}}
    \cup {[op |-> "name", args |-> <<Name(k)>>] :
        k \in {Key_a, Key_b, Key_type, Key_register}}

\* the update expressions that are evaluated in between
ExprUpdates ==
    [op : {"=", "+=", "-="}, target : {Key_a, Key_type},
     rhs : {PyStr(<<"x">>), PyStr(<<>>)}]

MaxExprEvals == 2

InitExpr == Idle /\ obj \in {<<r>> : r \in FilterRecords}

NextExpr ==
    \/ EvalFilter(FilterExprs, MaxExprEvals)
    \/ EvalUpdate(ExprUpdates, MaxExprEvals)

SpecExpr == InitExpr /\ [][NextExpr]_vars

-----------------------------------------------------------------------------
(* Compiled expressions used repeatedly: the same Expression objects are   *)
(* evaluated against one record after another, as main does with its       *)
(* filters and updates.  log keeps every evaluation: the expression, the   *)
(* record it was given and what came of it.                                *)

MaxHistory == 3

EvalFilters == {
    [op |-> "has_member",
     args |-> <<Name(Key_a), Const(PyStr(<<"x">>))>>],
    [op |-> "name", args |-> <<Name(Key_b)>>],
    [op |-> "=", args |-> <<Name(Key_a), Const(PyStr(<<"z">>))>>]}

EvalUpdates == {
    [op |-> "=", target |-> Key_a, rhs |-> PyStr(<<"z">>)],
    [op |-> "+=", target |-> Key_a, rhs |-> PyStr(<<"y">>)],
    [op |-> "-=", target |-> Key_b, rhs |-> PyStr(<<"y">>)]}

\* what one call expr.eval(names) leaves, r being its outcome
Evaluation(cls, e, r) ==
    /\ obj' = <<r.obj>>
    /\ value' = r.value
    /\ raised' = r.raised
    /\ evals' = Append(evals, e)
    /\ before' = obj
    /\ log' = Append(log, [cls |-> cls, expr |-> e, names |-> obj[1],
                           obj |-> r.obj, value |-> r.value,
                           raised |-> r.raised])
    /\ UNCHANGED <<input, cursor, copybuffer, copystream, updated,
                   update_mode, delete_mode, closed, exitVars, message,
                   parsed, cliVars>>

\* f.eval(objdef) for one of the compiled filters
EvalCompiledFilter ==
    /\ Len(log) < MaxHistory
    /\ \E e \in EvalFilters :
          Evaluation("ObjdefFilter", e, filter_eval(e, obj[1]))

\* update.eval(objdef) for one of the compiled updates
EvalCompiledUpdate ==
    /\ Len(log) < MaxHistory
    /\ \E e \in EvalUpdates :
          Evaluation("ObjdefUpdate", e, eval(e, obj[1]))

\* the loop over the records hands the next record to the expressions
NextObjdef ==
    /\ log # <<>> /\ Len(log) < MaxHistory
    /\ obj' \in {<<r>> : r \in UpdateRecords}
    /\ UNCHANGED <<sessionVars, raised, evalVars, message, parsed, cliVars>>

InitEval == Idle /\ obj \in {<<r>> : r \in UpdateRecords}

NextEval == EvalCompiledFilter \/ EvalCompiledUpdate \/ NextObjdef

SpecEval == InitEval /\ [][NextEval]_vars

LastIsFilter == evals # <<>> /\ "args" \in DOMAIN LastEval

\* C12: every evaluation of a filter or update expression leaves the record
\* with the type tag it had: the tag, the value read for "type" and the type
\* named on the opener line of the dump are the tag before the evaluation
C12_TypeTagFixed ==
    [][/\ obj'[1].objtype = obj[1].objtype
       /\ __getitem__(obj'[1], Key_type) = PyStr(obj[1].objtype)
       /\ StartsWith(dump(obj'[1]),
                     define \o obj[1].objtype \o <<" ", "{", "\n">>)
      ]_vars

\* an assignment to "type" has stored a directive of that name
C12_Witness ==
    /\ evals # <<>>
    /\ Key_type \in Keys(obj[1].items)
    /\ Get(obj[1].items, Key_type) # PyStr(obj[1].objtype)

\* the values the operands of the last filter expression had
Operand(i) == _eval_operand(before[1], LastEval.args[i]).value

\* a is a member of the collection b: a piece of the str b, or an element of
\* the list b
Member(a, b) ==
    IF b.t = "str"
    THEN \E i \in 1..(Len(b.s) - Len(a.s) + 1) :
            \A j \in 1..Len(a.s) : b.s[i + j - 1] = a.s[j]
    ELSE a.t = "str" /\ a.s \in Elements(b.s)

\* the same expression with the other of the operators in and not in
Twin(e) == [e EXCEPT !.op = IF @ = "in" THEN "not in" ELSE "in"]

\* C13: a in b is false and a not in b is true when b is None or empty, for
\* every a; for a b that is a str with a str a, or a list, they are whether a
\* is a member of b, and the contrary; and whatever a not in b gives, a value
\* or an exception, a in b gives the contrary value or the same exception
C13_InAndNotIn ==
    (LastIsFilter /\ LastEval.op \in {"in", "not in"}
        /\ raised # "NameNotDefined") =>
        /\ ~Truthy(Operand(2)) =>
              raised = "" /\ value = PyBool(LastEval.op = "not in")
        /\ (/\ Truthy(Operand(2))
            /\ \/ Operand(2).t = "list"
               \/ Operand(2).t = "str" /\ Operand(1).t = "str") =>
              /\ raised = ""
              /\ value = PyBool((LastEval.op = "in")
                                    <=> Member(Operand(1), Operand(2)))
        /\ raised = filter_eval(Twin(LastEval), before[1]).raised
        /\ raised = "" =>
              value = PyBool(~Truthy(filter_eval(Twin(LastEval),
                                                 before[1]).value))

\* 'x' not in b, for a directive b that the record does not have
C13_Witness ==
    /\ LastIsFilter
    /\ LastEval.op = "not in"
    /\ LastEval.args[2] = Name(Key_b)
    /\ raised = ""
    /\ value = PyBool(TRUE)

\* the members the last has_member was called with
Requested == [i \in 1..(Len(LastEval.args) - 1) |-> Operand(i + 1)]

\* every requested member is an element of the set S of str
AllIn(S) == \A i \in 1..Len(Requested) :
               Requested[i].t = "str" /\ Requested[i].s \in S

\* has_member was called with a collection that is a str or None
HasMemberCalled ==
    /\ LastIsFilter
    /\ LastEval.op = "has_member"
    /\ raised # "NameNotDefined"
    /\ Operand(1).t \in {"str", "None"}

\* C14 as claimed: has_member is whether every requested member is in the
\* set of the trimmed pieces of the collection, and an empty or missing
\* collection is a set with no elements, for every list of members
C14_HasMemberOfEmptyIsOfNoElements ==
    HasMemberCalled =>
        /\ raised = ""
        /\ value = PyBool(AllIn(IF Truthy(Operand(1))
                                THEN Members(Operand(1).s) ELSE {}))

\* C14: has_member is whether the collection is not empty and every
\* requested member is in the set of its trimmed pieces: an empty or missing
\* collection gives false for every list of members, the empty list too
C14_HasMember ==
    HasMemberCalled =>
        /\ raised = ""
        /\ value = PyBool(Truthy(Operand(1))
                          /\ AllIn(Members(Operand(1).s)))

\* has_member(a, 'y', 'x') for the directive a of value "x , y"
C14_Witness ==
    /\ HasMemberCalled
    /\ Len(Requested) = 2
    /\ Operand(1).s = <<"x", " ", ",", " ", "y">>
    /\ value = PyBool(TRUE)

\* C15 as claimed: a name that is neither a stored directive nor a computed
\* one evaluates to None, and no exception is raised
C15_MissingNameIsNone ==
    (/\ LastIsFilter
     /\ LastEval.op = "name"
     /\ LastEval.args[1].name \notin Keys(before[1].items) \cup register_name)
        => raised = "" /\ value = PyNone

\* C16: the evaluation of a filter expression leaves the record as it is
C16_FilterLeavesRecord ==
    [][(evals' # evals /\ "args" \in DOMAIN evals'[Len(evals')])
          => obj' = obj]_vars

\* a filter expression of the form a = 'z' has been evaluated, on a record
\* with a directive a of another value
C16_Witness ==
    /\ LastIsFilter
    /\ LastEval.op = "="
    /\ LastEval.args[1].name = Key_a
    /\ raised = ""
    /\ value = PyStr(<<"z">>)
    /\ Get(obj[1].items, Key_a) # PyStr(<<"z">>)

\* has_member(k, m) evaluated against the record o
IsMember(k, m, o) ==
    filter_eval([op |-> "has_member", args |-> <<Name(k), Const(m)>>],
                o).value = PyBool(TRUE)

\* C38 as claimed: the update operators and has_member agree on what a member
\* of a stored comma-separated value is, for a member m with no surrounding
\* whitespace: after k -= m, has_member(k, m) is false of the record, and
\* k += m leaves the record as it was when has_member(k, m) was true of it
C38_UpdatesAgreeWithHasMember ==
    (/\ evals # <<>> /\ ~LastIsFilter
     /\ raised = ""
     /\ LastEval.rhs = PyStr(<<"x">>))
        => /\ LastEval.op = "-=" =>
                  ~IsMember(LastEval.target, LastEval.rhs, obj[1])
           /\ (/\ LastEval.op = "+="
               /\ IsMember(LastEval.target, LastEval.rhs, before[1]))
                  => obj = before


-----------------------------------------------------------------------------
(* A record, built directly or changed by update expressions, is dumped to *)
(* a stream, and a ConfigStream reads one object back from that text.      *)

Other(objtype, items) == [from_type(objtype, 0) EXCEPT !.items = items]

DumpRecords == {
    Host(<<>>),
    Host(<<Item(Key_a, <<"x">>)>>),
    Host(<<Item(Key_a, <<"x">>), Item(Key_b, <<"y", " ", "z">>)>>),
    Host(<<Item(Key_b, <<"y">>), Item(Key_a, <<"x">>)>>),
    Host(<<Item(Key_a, <<"x">>), Item(Key_c, <<>>), Item(Key_b, <<"y">>)>>),
    Other(<<"t">>, <<Item(Key_b, <<"y">>)>>),
    Other(<<"t">>, <<Item(<<"a", " ", "b">>, <<"x">>)>>),
    Other(<<" ", "t">>, <<Item(Key_a, <<"x">>)>>)}

DumpExprs == {
    [op |-> "=", target |-> Key_a, rhs |-> PyInt(0)],
    [op |-> "=", target |-> Key_b, rhs |-> PyFloat(<<"1", ".", "5">>)],
    [op |-> "=", target |-> Key_a, rhs |-> PyStr(<<"z">>)],
    [op |-> "=", target |-> Key_a, rhs |-> PyStr(<<"x", "#", "y">>)],
    [op |-> "=", target |-> Key_b, rhs |-> PyNone],
    [op |-> "+=", target |-> Key_b, rhs |-> PyStr(<<"y">>)]}

MaxDumpEvals == 2

InitDump == Idle /\ obj \in {<<r>> : r \in DumpRecords}

\* objdef.dump(stream) on a new stream
Dumps ==
    /\ raised = "" /\ obj # <<>> /\ copystream = <<>>
    /\ copystream' = dump(obj[1])
    /\ UNCHANGED <<input, cursor, copybuffer, updated, update_mode,
                   delete_mode, closed, obj, raised, log, evals, before,
                   value, parsed, cliVars, message, exitVars>>

\* ConfigStream(stream).read_object() on the text that was dumped
ParseDump ==
    /\ copystream # <<>> /\ input = <<>>
    /\ input' = SplitLines(copystream)
    /\ LET r == load(input', 0)
       IN  /\ cursor' = r.cursor
           /\ parsed' = r.obj
           /\ raised' = IF r.kind = "object" THEN "" ELSE r.kind
           /\ message' = str_exc(r, <<>>)
    /\ UNCHANGED <<copybuffer, copystream, updated, update_mode, delete_mode,
                   closed, obj, log, evals, before, value, cliVars, exitVars>>

NextDump ==
    \/ copystream = <<>> /\ EvalUpdate(DumpExprs, MaxDumpEvals)
    \/ Dumps
    \/ ParseDump

SpecDump == InitDump /\ [][NextDump]_vars

\* the dumped text was read back
ReadBack == input # <<>>

RoundTrip == parsed # <<>> /\ ObjEq(parsed[1], obj[1])

\* C4 as claimed: reading back the dump of any record gives an equal record
C4_RoundTripOfAnyRecord == ReadBack => RoundTrip

\* a type tag that the opener line gives back: no "#", no line break, and
\* neither whitespace nor "{" at either end
PlainTag(tag) ==
    /\ \A i \in 1..Len(tag) : tag[i] \notin {"#", "\n", "\r"}
    /\ tag = StripChars(tag, Whitespace \cup {"{"})

\* a directive that its line gives back: the key is not empty and has no
\* whitespace and no "#"; the value is a str, not empty, with no "#", no line
\* break, and no whitespace at either end
PlainItem(item) ==
    /\ item.k # <<>>
    /\ \A i \in 1..Len(item.k) : item.k[i] \notin Whitespace \cup {"#"}
    /\ item.v.t = "str" /\ item.v.s # <<>>
    /\ \A i \in 1..Len(item.v.s) : item.v.s[i] \notin {"#", "\n", "\r"}
    /\ item.v.s = Strip(item.v.s)

Plain(o) ==
    PlainTag(o.objtype) /\ \A i \in 1..Len(o.items) : PlainItem(o.items[i])

\* C4, amended: reading back the dump of a record gives an equal record when
\* the record's tag, keys and values are plain
C4_RoundTripOfPlainRecords == (ReadBack /\ Plain(obj[1])) => RoundTrip

\* a plain record of two directives, one of them set by an update expression,
\* was dumped and read back
C4_Witness ==
    /\ ReadBack /\ Plain(obj[1]) /\ Len(obj[1].items) = 2
    /\ evals # <<>> /\ raised = "" /\ parsed # <<>>

KeyOrder(items) == [i \in 1..Len(items) |-> items[i].k]

\* the directives that have a value
Retained(items) == SelectSeq(items, LAMBDA it : ~IsEmpty(it.v))

\* line is the key, spaces up to the column of the values, and the value
DirectiveLine(line, item) ==
    LET head == <<" ", " ", " ", " ">> \o item.k \o <<" ">>
        tail == <<" ">> \o Format(item.v) \o <<"\n">>
        width == IF Len(item.k) > keywidth THEN Len(item.k) ELSE keywidth
    IN  /\ StartsWith(line, head)
        /\ Len(line) = 4 + width + Len(tail)
        /\ SubSeq(line, Len(line) - Len(tail) + 1, Len(line)) = tail
        /\ \A i \in (Len(head) + 1)..(Len(line) - Len(tail)) : line[i] = " "

\* C5: the dumped text is the opener line, one line for each directive that
\* has a value, in insertion order, and the closer line; and giving an
\* existing directive a new value leaves the order of the directives as it was
C5_DumpInInsertionOrder ==
    /\ copystream # <<>> =>
          LET lines == SplitLines(copystream)
              kept == Retained(obj[1].items)
          IN  /\ Len(lines) = Len(kept) + 2
              /\ lines[1] = define \o obj[1].objtype \o <<" ", "{", "\n">>
              /\ lines[Len(lines)] = <<"}", "\n">>
              /\ \A i \in 1..Len(kept) : DirectiveLine(lines[i + 1], kept[i])
    /\ (evals # <<>> /\ raised = "" /\ LastEval.op = "="
           /\ ~IsEmpty(LastEval.rhs)
           /\ LastEval.target \in Keys(before[1].items)) =>
          KeyOrder(obj[1].items) = KeyOrder(before[1].items)

\* a record of two directives with values and one without, the first of them
\* given a new value by an update expression, was dumped
C5_Witness ==
    /\ copystream # <<>>
    /\ Len(obj[1].items) = 3 /\ Len(Retained(obj[1].items)) = 2
    /\ evals # <<>> /\ raised = "" /\ LastEval.op = "="
    /\ ~IsEmpty(LastEval.rhs)
    /\ LastEval.target = obj[1].items[1].k
    /\ LastEval.target \in Keys(before[1].items)

-----------------------------------------------------------------------------
(* Invocations of main on a file system.  A file has a modification time   *)
(* and a content; main is invoked with options and config file names.      *)

\* what one round of the loop of commit leaves: the file system, the lines
\* echoed, and the exception that ends the loop
Outcome(fs, lines, exc) == [files |-> fs, echo |-> lines, raised |-> exc]

Arrow == <<" ", "-", ">", " ">>

\* shutil.move(config_file + TRANSACTION_SUFFIX, config_file), and the echo
Promoted(fs, name) ==
    Outcome(move(fs, Transaction(name), name),
            <<Transaction(name) \o Arrow \o name>>, "")

SkippedText ==
    <<"S", "k", "i", "p", "p", "e", "d", ":", " ", "O", "r", "i", "g", "i",
      "n", "a", "l", " ", "f", "i", "l", "e", " ", "n", "e", "w", "e", "r",
      " ", "t", "h", "a", "n", " ", "t", "r", "a", "n", "s", "a", "c", "t",
      "i", "o", "n", " ", "f", "i", "l", "e", ":", " ">>

\* the else branch: the echo alone
Skipped(fs, name) == Outcome(fs, <<SkippedText \o name>>, "")

\* except FileNotFoundError: pass
NotFound(fs) == Outcome(fs, <<>>, "")

commit_file_not_strict(fs, o, name) ==
    IF o.no_transaction_check
    THEN IF fs[Transaction(name)].exists THEN Promoted(fs, name)
         ELSE NotFound(fs)
    ELSE IF ~fs[name].exists \/ ~fs[Transaction(name)].exists
    THEN NotFound(fs)
    ELSE IF fs[name].mtime <= fs[Transaction(name)].mtime
    THEN Promoted(fs, name)
    ELSE Skipped(fs, name)

commit_file_reporting(fs, o, name) ==
    IF o.no_transaction_check
    THEN IF fs[Transaction(name)].exists THEN Promoted(fs, name)
         ELSE Skipped(fs, name)
    ELSE IF ~fs[name].exists \/ ~fs[Transaction(name)].exists
    THEN Skipped(fs, name)
    ELSE IF fs[name].mtime < fs[Transaction(name)].mtime
    THEN Promoted(fs, name)
    ELSE Skipped(fs, name)

commit_file_raising(fs, o, name) ==
    IF o.no_transaction_check
    THEN IF fs[Transaction(name)].exists THEN Promoted(fs, name)
         ELSE Outcome(fs, <<>>, "FileNotFoundError")
    ELSE IF ~fs[name].exists \/ ~fs[Transaction(name)].exists
    THEN Outcome(fs, <<>>, "FileNotFoundError")
    ELSE IF fs[name].mtime < fs[Transaction(name)].mtime
    THEN Promoted(fs, name)
    ELSE Skipped(fs, name)

\* the body of the loop of commit, for the config file name: getmtime of a
\* file that does not exist, and shutil.move of one, raise FileNotFoundError
commit_file(fs, o, name) ==
    IF o.no_transaction_check
    THEN IF fs[Transaction(name)].exists THEN Promoted(fs, name)
         ELSE NotFound(fs)
    ELSE IF ~fs[name].exists \/ ~fs[Transaction(name)].exists
    THEN NotFound(fs)
    ELSE IF fs[name].mtime < fs[Transaction(name)].mtime
    THEN Promoted(fs, name)
    ELSE Skipped(fs, name)

\* main with --commit: one round of the loop of commit
commit ==
    /\ opt # <<>> /\ opt.commit
    /\ raised = "" /\ done < Len(config_files)
    /\ files' = commit_file(files, opt, config_files[done + 1]).files
    /\ echo' = echo \o commit_file(files, opt, config_files[done + 1]).echo
    /\ raised' = commit_file(files, opt, config_files[done + 1]).raised
    /\ done' = done + 1
    /\ UNCHANGED <<sessionVars, obj, evalVars, parsed, opt, config_files,
                   message>>

\* main without --commit opens the first config file: ConfigFile(name,
\* encoding=..., update_mode=..., delete_mode=..., transaction_suffix=...,
\* transaction_check=...).  DataFile.__init__ takes neither of the last two
\* keywords: TypeError, before any file is opened
ConfigFile ==
    /\ opt # <<>> /\ ~opt.commit
    /\ raised = "" /\ done < Len(config_files)
    /\ raised' = "TypeError"
    /\ UNCHANGED <<sessionVars, obj, evalVars, parsed, cliVars, message>>

Paths == {<<"p">>, <<"q">>}

FileNames == Paths \cup {Transaction(name) : name \in Paths}

MaxTime == 2

MaxPaths == 2

\* the options of main that matter here
Options ==
    [commit : {TRUE}, no_transaction_check : BOOLEAN, update : {FALSE},
     write : {"transaction"}]
    \cup [commit : {FALSE}, no_transaction_check : BOOLEAN, update : BOOLEAN,
          write : {"transaction", "overwrite", "backup"}]

InitCli ==
    /\ NoSession
    /\ obj = <<>>
    /\ files \in [FileNames ->
                     {Absent} \cup {File(t, c) : t \in 1..MaxTime,
                                                c \in {<<"1">>, <<"2">>}}]
    /\ opt \in Options
    /\ config_files \in UNION {[1..n -> Paths] : n \in 1..MaxPaths}
    /\ done = 0
    /\ echo = <<>>

NextCli == commit \/ ConfigFile

SpecCli == InitCli /\ [][NextCli]_vars

\* a round of the loop of commit is taken, for the config file Current
Committing == opt # <<>> /\ opt.commit /\ done' = done + 1
Current == config_files[done + 1]

\* the guard is on, and the original is not older than the transaction file
OriginalNewer ==
    /\ ~opt.no_transaction_check
    /\ files[Current].exists
    /\ files[Current].mtime >= files[Transaction(Current)].mtime

\* the guard is off, or the original is older than the transaction file
OriginalOlder ==
    \/ opt.no_transaction_check
    \/ /\ files[Current].exists
       /\ files[Current].mtime < files[Transaction(Current)].mtime

C18_EveryPathReported ==
    [][Committing =>
          /\ Len(echo') = Len(echo) + 1
          /\ ~files[Transaction(Current)].exists =>
                StartsWith(echo'[Len(echo')], <<"S", "k", "i", "p">>)
      ]_vars

\* the files getmtime and shutil.move are called on exist
Found ==
    /\ files[Transaction(Current)].exists
    /\ opt.no_transaction_check \/ files[Current].exists

\* C18: a round of the loop echoes one line, which ends in the path, when
\* the transaction file exists (and, with the guard on, the original): the
\* promotion, or the skip of an original that is not older.  For a path with
\* no transaction file nothing is echoed, no exception is raised, and the
\* loop goes on
C18_FoundPathsReported ==
    [][Committing =>
          /\ raised' = ""
          /\ Found =>
                /\ Len(echo') = Len(echo) + 1
                /\ echo'[Len(echo')] \in
                       {SkippedText \o Current,
                        Transaction(Current) \o Arrow \o Current}
          /\ ~Found => echo' = echo /\ files' = files
      ]_vars

\* commit is through with two paths: nothing was echoed for the first, which
\* has no transaction file, and the skip of the second was
C18_Witness ==
    /\ opt # <<>> /\ opt.commit
    /\ done = 2
    /\ config_files[1] # config_files[2]
    /\ files[config_files[1]].exists
    /\ ~files[Transaction(config_files[1])].exists
    /\ echo = <<SkippedText \o config_files[2]>>

\* C19: a round of the loop changes no file but the original and the
\* transaction file of its own path, neither of them when the path is skipped,
\* and whatever the outcome no exception ends the loop: the next path is next
C19_PathsIndependent ==
    [][Committing =>
          /\ \A f \in FileNames \ {Current, Transaction(Current)} :
                files'[f] = files[f]
          /\ (~Found \/ OriginalNewer) => files' = files
          /\ raised' = ""
          /\ UNCHANGED <<opt, config_files>>
      ]_vars

\* the first path was skipped for want of a transaction file, and the second
\* was promoted after it
C19_Witness ==
    /\ opt # <<>> /\ opt.commit
    /\ done = 2
    /\ config_files[1] # config_files[2]
    /\ ~files[Transaction(config_files[1])].exists
    /\ echo = <<Transaction(config_files[2]) \o Arrow \o config_files[2]>>

\* C20 as claimed: once main, invoked with --update and --write=transaction
\* on a path whose transaction file exists, has opened its session, the
\* session reads the lines of the transaction file
C20_SessionReadsTransactionFile ==
    (/\ opt # <<>> /\ ~opt.commit /\ opt.update /\ opt.write = "transaction"
     /\ files[Transaction(config_files[1])].exists
     /\ raised # "" \/ input # <<>>)
        => /\ raised = ""
           /\ input = SplitLines(files[Transaction(config_files[1])].content)

\* main, invoked with --update and the write strategy w, is over: it ran
\* through its config files, or an exception ended it
Edited(w) ==
    /\ opt # <<>> /\ ~opt.commit /\ opt.update /\ opt.write = w
    /\ raised # "" \/ done = Len(config_files)

\* C21 as claimed: an edit run with the transaction strategy gets to finalize
\* its files, where the rewritten content is installed under the transaction
\* suffix: no exception ends the run before
C21_TransactionStrategy ==
    Edited("transaction") => raised = "" /\ done = Len(config_files)

\* C22 as claimed: an edit run with the backup or the overwrite strategy gets
\* to finalize its files, where the rewritten content is installed at the
\* original path: no exception ends the run before
C22_BackupAndOverwriteStrategies ==
    (Edited("backup") \/ Edited("overwrite")) =>
        raised = "" /\ done = Len(config_files)

\* C35 as claimed: a mutation-mode invocation pulls the records of its files
\* and submits one decision for each, so that it is over only when the
\* records of all its files have been decided: it does not end on a
\* TypeError with no record pulled
C35_OneDecisionPerRecord ==
    (/\ opt # <<>> /\ ~opt.commit /\ opt.update
     /\ raised # "" \/ done = Len(config_files))
        => raised # "TypeError"

\* C30 as claimed: an invocation given several files reads them one at a time
\* in argument order, and it is through with all of them when it is over
C30_FilesInArgumentOrder ==
    (/\ opt # <<>> /\ ~opt.commit
     /\ Len(config_files) > 1
     /\ raised # "" \/ done = Len(config_files))
        => raised = "" /\ done = Len(config_files)

-----------------------------------------------------------------------------
(* Reading records: ConfigStream(stream), and ConfigFile(name) opened for  *)
(* reading only, on a text that holds one block under an optional prefix   *)
(* of ignored lines; the record that read_objects yields is then read      *)
(* through objdef[key] and objdef.identifier, and dumped.                  *)

OpenService == define \o <<"s", "e", "r", "v", "i", "c", "e", " ", "{">>
DirRegister == <<"r", "e", "g", "i", "s", "t", "e", "r", " ", "0", "7">>
DirRegisterText == <<"r", "e", "g", "i", "s", "t", "e", "r", " ", "x">>

Openers == {OpenHost, OpenService, OpenOther}

\* the directive lines: host_name, hostgroup_name and service_description,
\* register twice, a with a tab, with a space and a tab and with a tab and a
\* space for separator, type, and a line with no separator
Directives == {
    <<" ", " ", "h", "o", "s", "t", "_", "n", "a", "m", "e", " ", "h">>,
    <<" ", "h", "o", "s", "t", "g", "r", "o", "u", "p", "_", "n", "a", "m",
      "e", " ", " ", "g">>,
    <<"s", "e", "r", "v", "i", "c", "e", "_", "d", "e", "s", "c", "r", "i",
      "p", "t", "i", "o", "n", " ", "d", " ", "#", "c">>,
    DirRegister,
    DirRegisterText,
    <<"a", "\t", "x">>,
    <<"a", " ", "\t", " ", "x">>,
    <<"a", "\t", " ", "x", " ", "y">>,
    <<"t", "y", "p", "e", " ", "x">>,
    Bad}

MaxDirectives == 2

ParseFiles ==
    {RawLines(prefix \o <<opener>> \o dirs \o closer, TRUE) :
        prefix \in {<<>>, <<Comment, Blank>>},
        opener \in Openers,
        dirs \in UNION {[1..m -> Directives] : m \in 0..MaxDirectives},
        closer \in {<<>>, <<Closer>>}}

\* ConfigStream(stream), or ConfigFile(name) with neither update_mode nor
\* delete_mode
InitParse ==
    /\ input \in ParseFiles
    /\ cursor = 0
    /\ copybuffer = <<>>
    /\ copystream = <<>>
    /\ updated = FALSE
    /\ update_mode = FALSE
    /\ delete_mode = FALSE
    /\ closed = FALSE
    /\ has_copystream = FALSE
    /\ exited = FALSE
    /\ obj = <<>>
    /\ raised = ""
    /\ message = <<>>
    /\ log = <<>>
    /\ evals = <<>>
    /\ before = <<>>
    /\ value = PyNone
    /\ parsed = <<>>
    /\ files \in {<<>>, opened(input, FALSE)}
    /\ opt = <<>>
    /\ config_files = <<>>
    /\ done = 0
    /\ echo = <<>>

\* objdef[key], for one of the keys in K
GetItem(K) ==
    /\ raised = "" /\ obj # <<>>
    /\ \E key \in K :
          /\ value' = __getitem__(obj[1], key)
          /\ evals' = <<[op |-> "[]", target |-> key]>>
    /\ UNCHANGED <<sessionVars, obj, raised, before, parsed, cliVars,
                   message>>

\* objdef.identifier
Identifier ==
    /\ raised = "" /\ obj # <<>>
    /\ value' = identifier(obj[1])
    /\ evals' = <<[op |-> "identifier", target |-> <<>>]>>
    /\ UNCHANGED <<sessionVars, obj, raised, before, parsed, cliVars,
                   message>>

NextParse ==
    \/ ReadObject
    \/ GetItem({Key_type, Key_register, Key_a, host_name})
    \/ Identifier
    \/ Dumps

SpecParse == InitParse /\ [][NextParse]_vars

\* the number of the line that opens the block of the text that is read
OpenerLine ==
    First({n \in 1..Len(input) : StartsWith(preprocess_line(input[n]), define)})

\* line n is a directive line with no whitespace between a key and a value
Unseparated(l) ==
    /\ l \notin {<<>>, Closer}
    /\ \A i \in 1..Len(l) : l[i] \notin Whitespace
NoSeparator(n) == Unseparated(preprocess_line(input[n])) /\ n > OpenerLine

\* line n is such a line, and the parser gets to it: each data line of the
\* block ahead of it holds a space
Offending(n) ==
    /\ NoSeparator(n)
    /\ \A m \in (OpenerLine + 1)..(n - 1) :
          preprocess_line(input[m]) # <<>>
              => Contains(preprocess_line(input[m]), " ")

\* the message cites line n, and the file's name when a file is read
Cites(n) ==
    IF files # <<>>
    THEN Substring(<<" ">> \o self_name \o <<" ", "l", "i", "n", "e", " ">>
                       \o IntStr(n) \o <<":">>, message)
    ELSE Substring(<<"a", "t", " ", "l", "i", "n", "e", " ">>
                       \o IntStr(n) \o <<":">>, message)

\* C24: once the parser has pulled a directive line that has no separator,
\* parsing has failed with a RuntimeError whose message cites the number of
\* that raw line, blank and comment lines counted, and the file's name when
\* a file is read; no record was emitted and no line beyond it was pulled
C24_MalformedLineIsCited ==
    \A n \in 1..cursor :
        Offending(n) =>
            /\ raised = "RuntimeError"
            /\ Cites(n)
            /\ obj = <<>>
            /\ cursor = n

C24_Witness ==
    /\ files # <<>>
    /\ Len(input) >= 5
    /\ preprocess_line(input[1]) = <<>> /\ preprocess_line(input[2]) = <<>>
    /\ Offending(5) /\ cursor = 5
    /\ raised = "RuntimeError"

\* no line after the opener is the closing marker
Unterminated ==
    \A n \in (OpenerLine + 1)..Len(input) : preprocess_line(input[n]) # Closer

\* C25 as claimed: once the parser has read a text whose block is not
\* terminated by its closing marker, parsing has failed with a RuntimeError
\* and no record was emitted for the block
C25_UnterminatedBlockFails ==
    (Unterminated /\ cursor > 0) => raised = "RuntimeError" /\ obj = <<>>

\* the first run of spaces and tabs of a trimmed line starts at FirstBlank
Blanks == {" ", "\t"}
FirstBlank(l) == First({i \in 1..Len(l) : l[i] \in Blanks})

\* line n is a directive line "key<ws>value"
HasSeparator(n) ==
    /\ n > OpenerLine
    /\ preprocess_line(input[n]) \notin {<<>>, Closer}
    /\ FirstBlank(preprocess_line(input[n])) # 0

\* the key and the value of such a line, split at the first run of
\* whitespace
KeyOf(l) == SubSeq(l, 1, FirstBlank(l) - 1)
ValueOf(l) == PyStr(Strip(SubSeq(l, FirstBlank(l) + 1, Len(l))))

\* every data line of the block is "key<ws>value" or the closing marker
WellFormed ==
    \A n \in (OpenerLine + 1)..Len(input) :
        preprocess_line(input[n]) \in {<<>>, Closer} \/ HasSeparator(n)

\* line n is the last directive line of its key
LastOfKey(n) ==
    \A m \in (n + 1)..Len(input) :
        HasSeparator(m) =>
            KeyOf(preprocess_line(input[m])) # KeyOf(preprocess_line(input[n]))

\* C26 as claimed: once a block whose directive lines are all "key<ws>value",
\* <ws> any run of spaces and tabs, has been read, no RuntimeError was raised
\* and the record holds, under the key of each line, the trimmed value of
\* the last line of that key
C26_SplitAtFirstWhitespace ==
    (WellFormed /\ cursor > 0) =>
        /\ raised # "RuntimeError"
        /\ obj # <<>> =>
              \A n \in 1..Len(input) :
                  (HasSeparator(n) /\ LastOfKey(n)) =>
                      /\ KeyOf(preprocess_line(input[n])) \in Keys(obj[1].items)
                      /\ Get(obj[1].items, KeyOf(preprocess_line(input[n])))
                             = ValueOf(preprocess_line(input[n]))

\* the type name the block's opener is written with
Written ==
    IF input[OpenerLine] = OpenHost \o <<"\n">> THEN <<"h", "o", "s", "t">>
    ELSE IF input[OpenerLine] = OpenService \o <<"\n">>
    THEN <<"s", "e", "r", "v", "i", "c", "e">>
    ELSE <<"t">>

\* the last read of the record was objdef[key]
ReadOf(key) == evals # <<>> /\ evals[1].op = "[]" /\ evals[1].target = key

\* C27: the record read from a block is of the class registered for the
\* block's type name, or of the generic class when none is, its type tag is
\* the type name as written, and reading "type" returns that name, whatever
\* the block's directives
C27_DispatchOnTypeName ==
    obj # <<>> =>
        /\ obj[1].objtype = Written
        /\ obj[1].cls = IF Written \in registered_types THEN Written
                        ELSE BaseClass
        /\ ReadOf(Key_type) => value = PyStr(Written)

C27_Witness ==
    /\ obj # <<>> /\ ReadOf(Key_type)
    /\ Written \notin registered_types
    /\ Key_type \in Keys(obj[1].items)

\* the last read of the record was objdef.identifier
IdentifierRead == obj # <<>> /\ evals # <<>> /\ evals[1].op = "identifier"

\* directive k is present in the record that was read; its text, and the
\* text an f-string gives when it is absent
Present(k) == k \in Keys(obj[1].items)
TextOf(k) ==
    IF Present(k) THEN Get(obj[1].items, k).s ELSE <<"N", "o", "n", "e">>

\* C28: the identifier of a service record is host_name;service_description
\* when host_name is present, else hostgroup_name;service_description when
\* hostgroup_name is present, else the service_description, None when that
\* is absent too; the identifier of a host record is its host_name, None
\* when absent.  (An absent service_description is formatted as None in the
\* two joined forms.)
C28_Identifiers ==
    IdentifierRead =>
        /\ obj[1].objtype = <<"s", "e", "r", "v", "i", "c", "e">> =>
              value = IF Present(host_name)
                      THEN PyStr(TextOf(host_name) \o <<";">>
                                     \o TextOf(service_description))
                      ELSE IF Present(hostgroup_name)
                      THEN PyStr(TextOf(hostgroup_name) \o <<";">>
                                     \o TextOf(service_description))
                      ELSE IF Present(service_description)
                      THEN PyStr(TextOf(service_description))
                      ELSE PyNone
        /\ obj[1].objtype = <<"h", "o", "s", "t">> =>
              value = IF Present(host_name) THEN PyStr(TextOf(host_name))
                      ELSE PyNone

C28_Witness ==
    /\ IdentifierRead
    /\ obj[1].objtype = <<"s", "e", "r", "v", "i", "c", "e">>
    /\ Present(host_name) /\ Present(hostgroup_name)
    /\ value = PyStr(<<"h", ";", "N", "o", "n", "e">>)

\* the lines of the text that set the directive register, which is in the
\* coercion table, and the text the last of them gives it: "07", which
\* converts, or "x", which does not
RegisterLines ==
    {n \in 1..Len(input) :
        input[n] \in {DirRegister \o <<"\n">>, DirRegisterText \o <<"\n">>}}
RegisterText ==
    IF input[CHOOSE n \in RegisterLines : \A m \in RegisterLines : m <= n]
           = DirRegister \o <<"\n">>
    THEN <<"0", "7">> ELSE <<"x">>

\* C29: reading a directive of the coercion table returns the number its
\* stored text converts to, and the stored text itself, with no error, when
\* it does not convert; whatever was read, the record still stores the text
\* of the file, and its dump renders the directive with that text
C29_PermissiveRead ==
    (obj # <<>> /\ RegisterLines # {}) =>
        /\ Get(obj[1].items, Key_register) = PyStr(RegisterText)
        /\ ReadOf(Key_register) =>
              /\ raised = ""
              /\ value = IF RegisterText = <<"0", "7">> THEN PyInt(7)
                         ELSE PyStr(<<"x">>)
        /\ copystream # <<>> =>
              \E i \in 1..Len(SplitLines(copystream)) :
                  DirectiveLine(SplitLines(copystream)[i],
                                [k |-> Key_register,
                                 v |-> PyStr(RegisterText)])

C29_Witness ==
    /\ obj # <<>> /\ RegisterLines # {}
    /\ RegisterText = <<"x">>
    /\ \E n \in RegisterLines : input[n] = DirRegister \o <<"\n">>
    /\ ReadOf(Key_register) /\ value = PyStr(<<"x">>)
    /\ copystream # <<>>

====
